---- MODULE Spec2Model ----
(***************************************************************************)
(* Model of the circular byte queue of src/queue.c (queue_t of             *)
(* src/queue.h): storage, head, tail, total_size, current_size, the mutex  *)
(* and the condition variable, and the threads that call queue_put_data,   *)
(* queue_get_data, queue_get_data_with_timeout, queue_clear and            *)
(* queue_destroy on one queue.                                             *)
(*                                                                         *)
(* Granularity.  Every access to head, tail and data[] happens with the    *)
(* mutex held; the only access without it is the read of current_size in   *)
(* queue_get_current_size.  One loop iteration of put / get is therefore   *)
(* one step (its writes cannot be told apart by any other thread except    *)
(* through current_size, which it writes once), and the unlocked read is   *)
(* a step of its own that may fall between any two iterations.             *)
(***************************************************************************)
EXTENDS Integers, Sequences, FiniteSets, TLC

\* ---------------------------------------------------------------- bounds
\* queue_size of queue_init ranges over 1 .. MaxCap,
\* data_len of a put or get over 1 .. MaxLen
MaxCap == 2
MaxLen == 2

\* --------------------------------------------------------------- threads
Producers == {"p1", "p2"}
Consumers == {"c1", "c2"}
\* the thread that set the queue up: it calls queue_clear and queue_destroy
Owners == {"o1"}
Threads == Producers \cup Consumers \cup Owners
NoThread == "none"
\* queue_mutex after a pthread_mutex_destroy that returned 0
Destroyed == "destroyed"

\* The byte values of the inputs.  No function of queue.c looks at the
\* value of a byte it moves, so two values stand for all 256: they are
\* enough to tell any two positions of a stream apart.
Bytes == {0, 1}
\* content of a byte of malloc'ed storage nobody has written yet
Uninit == -1
\* queue_t.data after free(): the pointer is left, the storage is gone
Freed == << >>
\* timeout arguments (ms) of queue_get_data_with_timeout
Timeouts == {0, 1500}

\* return values of pthread_cond_timedwait the code distinguishes
WAIT_OK == "OK"
WAIT_EINTR == "EINTR"
WAIT_ETIMEDOUT == "ETIMEDOUT"

VARIABLES
    data,          \* queue_t.data: the malloc'ed buffer, index 0 .. total_size-1
                   \* (Freed once queue_destroy has released it)
    head,          \* queue_t.head
    tail,          \* queue_t.tail
    total_size,    \* queue_t.total_size
    current_size,  \* queue_t.current_size
    mutex,         \* queue_t.queue_mutex: the thread holding it, NoThread,
                   \* or Destroyed
    waiters,       \* queue_t.queue_cond: the threads blocked in a wait on it
    pc,            \* per thread: its position in the function it runs
    len,           \* per thread: the data_len argument of its call
    buf,           \* per thread: the data argument (input of put, output of get)
    num,           \* per thread: put_num / get_num
    timeout,       \* per consumer: the timeout argument
    expired,       \* per consumer: the deadline end_time has passed
    wret,          \* per consumer: the value its last wait returned
    result,        \* per thread: the value its last call returned (0 while it
                   \* is in a call: the caller has no value yet; the bool of
                   \* queue_clear and queue_destroy is 1 for true, 0 for false)
    quota,         \* per thread: the calls its program still makes (-1: any number)
    \* history variables (not part of the program)
    accepted,      \* bytes written by puts, in the order written       (*)
    delivered,     \* bytes read by drains, in the order read           (*)
    balance,       \* sum of the returns >= 0 of put minus that of the gets
    snap,          \* queue fields when the current holder took the mutex
    startEmpty,    \* per consumer: current_size was 0 when its call started
    wroteSince,    \* per consumer: its call started on an empty queue and a
                   \* put has written a byte since
    signalled      \* per consumer: its last wait was ended by the signal of a
                   \* put that had written >= 1 byte
\* (*) kept with their longest common prefix dropped: delivered is a prefix
\*     of accepted exactly if that holds of what is left of the two.

qvars == <<data, head, tail, total_size, current_size>>
svars == <<mutex, waiters>>
tvars == <<pc, len, buf, num, timeout, expired, wret, result, quota>>
hvars == <<accepted, delivered, balance, snap, startEmpty, wroteSince, signalled>>
vars == <<qvars, svars, tvars, hvars>>

\* ------------------------------------------------------------ pure parts
Min(a, b) == IF a <= b THEN a ELSE b

\* s is a prefix of t
IsPrefix(s, t) == Len(s) <= Len(t) /\ SubSeq(t, 1, Len(s)) = s

\* queue_init: len = queue_size * sizeof(uint8_t) + 1.  The fields are
\* uint32_t; every value of the model stays far below 2^32 (queue_size is at
\* most MaxCap), so no operation of the model wraps and none is reduced.
InitLen(queue_size) == queue_size + 1

\* (index + 1) % total_size, the step of head and of tail
NextIndex(i, ts) == (i + 1) % ts

\* a full test that forgets the wrap of tail + 1
IsFullNoWrap(h, t, ts) == t + 1 = h

\* a full test that counts the spare slot as usable
IsFullAllSlots(h, t, ts) == current_size = ts

\* a full test that never finds the queue full
IsFullNever(h, t, ts) == FALSE

\* the full test of queue_put_data
IsFull(h, t, ts) == NextIndex(t, ts) = h

\* an empty test that never finds the queue empty
IsEmptyNever(h, t) == FALSE

\* the empty test of the drain loops
IsEmpty(h, t) == h = t

\* the bytes between head and tail, oldest first
Ring(d, h, t, ts) ==
    [i \in 1 .. ((t - h + ts) % ts) |-> d[(h + i - 1) % ts]]

Held == Ring(data, head, tail, total_size)
Capacity == total_size - 1

NoSnap == [head |-> 0, tail |-> 0, size |-> 0, data |-> << >>]
TakeSnap == [head |-> head, tail |-> tail, size |-> current_size, data |-> data]

\* drop the common prefix of two histories
RECURSIVE Cancel(_, _)
Cancel(a, d) ==
    IF a # << >> /\ d # << >> /\ Head(a) = Head(d)
    THEN Cancel(Tail(a), Tail(d))
    ELSE <<a, d>>

\* ------------------------------------------------------------------ Init
\* The state after queue_init(&q, queue_size) returned true, for a
\* queue_size in 1 .. MaxCap; no thread has called anything yet.
InitThreads ==
    /\ pc = [t \in Threads |-> "idle"]
    /\ len = [t \in Threads |-> 0]
    /\ buf = [t \in Threads |-> << >>]
    /\ num = [t \in Threads |-> 0]
    /\ timeout = [c \in Consumers |-> 0]
    /\ expired = [c \in Consumers |-> FALSE]
    /\ wret = [c \in Consumers |-> WAIT_OK]
    /\ result = [t \in Threads |-> 0]

\* threads that call as often as they like
AnyCalls == quota = [t \in Threads |-> -1]

InitHistory ==
    /\ accepted = << >>
    /\ delivered = << >>
    /\ balance = 0
    /\ snap = NoSnap
    /\ startEmpty = [c \in Consumers |-> FALSE]
    /\ wroteSince = [c \in Consumers |-> FALSE]
    /\ signalled = [c \in Consumers |-> FALSE]

queue_init(queue_size) ==
    /\ total_size = InitLen(queue_size)
    /\ data = [i \in 0 .. InitLen(queue_size) - 1 |-> Uninit]
    /\ head = 0
    /\ tail = 0
    /\ current_size = 0
    /\ mutex = NoThread
    /\ waiters = {}

Init ==
    /\ \E queue_size \in 1 .. MaxCap : queue_init(queue_size)
    /\ InitThreads
    /\ AnyCalls
    /\ InitHistory

\* ---------------------------------------------------------------- return
\* Thread t returns r to its caller and may call again.  Its arguments and
\* locals go out of scope; the value returned stays in result[t].
ReturnValue(t, r) ==
    /\ UNCHANGED quota
    /\ result' = [result EXCEPT ![t] = r]
    /\ pc' = [pc EXCEPT ![t] = "idle"]
    /\ len' = [len EXCEPT ![t] = 0]
    /\ buf' = [buf EXCEPT ![t] = << >>]
    /\ num' = [num EXCEPT ![t] = 0]
    /\ IF t \in Consumers
       THEN /\ timeout' = [timeout EXCEPT ![t] = 0]
            /\ expired' = [expired EXCEPT ![t] = FALSE]
            /\ wret' = [wret EXCEPT ![t] = WAIT_OK]
            /\ startEmpty' = [startEmpty EXCEPT ![t] = FALSE]
            /\ wroteSince' = [wroteSince EXCEPT ![t] = FALSE]
            /\ signalled' = [signalled EXCEPT ![t] = FALSE]
       ELSE UNCHANGED <<timeout, expired, wret, startEmpty, wroteSince, signalled>>

\* ------------------------------------------------------- argument check
MakesCall(t) ==
    /\ quota[t] # 0
    /\ quota' = [quota EXCEPT ![t] = IF @ > 0 THEN @ - 1 ELSE @]

\* an argument check that forgets the length
ArgsInvalidNoLen(queue_name, buffer, data_len) == (~queue_name) \/ (~buffer)

\* The test (!queue_name) || (!data) || (!data_len) of put and of both
\* gets.  A pointer argument is represented by whether it is non-null.
ArgsInvalid(queue_name, buffer, data_len) ==
    (~queue_name) \/ (~buffer) \/ (data_len = 0)

\* the invalid argument lists that are tried: each argument bad alone, and all
BadArgs == {<<FALSE, TRUE, 1>>, <<TRUE, FALSE, 1>>, <<TRUE, TRUE, 0>>,
            <<FALSE, FALSE, 0>>}

\* return -1 straight from the argument check
Reject(t) ==
    /\ pc[t] = "idle"
    /\ MakesCall(t)
    /\ result' = [result EXCEPT ![t] = -1]
    /\ UNCHANGED <<qvars, svars, pc, len, buf, num, timeout, expired, wret, hvars>>

\* -------------------------------------------------------- queue_put_data
\* a put that goes into its loop without taking the mutex
PutEnterNoLock(p, d) ==
    /\ pc[p] = "idle"
    /\ MakesCall(p)
    /\ buf' = [buf EXCEPT ![p] = d]
    /\ len' = [len EXCEPT ![p] = Len(d)]
    /\ num' = [num EXCEPT ![p] = 0]
    /\ pc' = [pc EXCEPT ![p] = "put_loop"]
    /\ result' = [result EXCEPT ![p] = 0]
    /\ UNCHANGED <<qvars, svars, timeout, expired, wret, hvars>>

\* A call that passed the argument check, up to its pthread_mutex_lock:
\* nothing shared is touched before the lock is taken, so the call and the
\* lock are one step.  d is the input, Len(d) its data_len.
PutEnter(p, d) ==
    /\ pc[p] = "idle"
    /\ MakesCall(p)
    /\ mutex = NoThread
    /\ mutex' = p
    /\ buf' = [buf EXCEPT ![p] = d]
    /\ len' = [len EXCEPT ![p] = Len(d)]
    /\ num' = [num EXCEPT ![p] = 0]
    /\ pc' = [pc EXCEPT ![p] = "put_loop"]
    /\ result' = [result EXCEPT ![p] = 0]
    /\ snap' = TakeSnap
    /\ UNCHANGED <<qvars, waiters, timeout, expired, wret>>
    /\ UNCHANGED <<accepted, delivered, balance, startEmpty, wroteSince, signalled>>

\* queue_put_data(queue_name, data, data_len) from its entry
CallPut(p, queue_name, buffer, data_len) ==
    IF ArgsInvalid(queue_name, buffer, data_len)
    THEN Reject(p)
    ELSE \E d \in [1 .. data_len -> Bytes] : PutEnter(p, d)

\* a call with valid arguments (non-null queue and data, data_len >= 1)
PutCall(p) == \E n \in 1 .. MaxLen : CallPut(p, TRUE, TRUE, n)

\* a call with invalid arguments
PutCallInvalid(p) == \E a \in BadArgs : CallPut(p, a[1], a[2], a[3])

\* the loop test of the put: another iteration writes a byte
PutMore(p) == num[p] < len[p] /\ ~IsFull(head, tail, total_size)

\* an iteration that forgets to count the byte it stored
PutByteNoCount(p) ==
    /\ UNCHANGED quota
    /\ pc[p] = "put_loop"
    /\ mutex = p
    /\ PutMore(p)
    /\ data' = [data EXCEPT ![tail] = buf[p][num[p] + 1]]
    /\ tail' = NextIndex(tail, total_size)
    /\ num' = [num EXCEPT ![p] = num[p] + 1]
    /\ accepted' = Cancel(Append(accepted, buf[p][num[p] + 1]), delivered)[1]
    /\ delivered' = Cancel(Append(accepted, buf[p][num[p] + 1]), delivered)[2]
    /\ wroteSince' = [c \in Consumers |-> startEmpty[c]]
    /\ UNCHANGED <<head, total_size, current_size, svars, pc, len, buf, timeout, expired, wret, result>>
    /\ UNCHANGED <<balance, snap, startEmpty, signalled>>

\* one iteration that stores data[put_num] at tail
PutByte(p) ==
    /\ UNCHANGED quota
    /\ pc[p] = "put_loop"
    /\ mutex = p
    /\ PutMore(p)
    /\ data' = [data EXCEPT ![tail] = buf[p][num[p] + 1]]
    /\ tail' = NextIndex(tail, total_size)
    /\ current_size' = current_size + 1
    /\ num' = [num EXCEPT ![p] = num[p] + 1]
    /\ accepted' = Cancel(Append(accepted, buf[p][num[p] + 1]), delivered)[1]
    /\ delivered' = Cancel(Append(accepted, buf[p][num[p] + 1]), delivered)[2]
    /\ wroteSince' = [c \in Consumers |-> startEmpty[c]]
    /\ UNCHANGED <<head, total_size, svars, pc, len, buf, timeout, expired, wret, result>>
    /\ UNCHANGED <<balance, snap, startEmpty, signalled>>

\* a put that unlocks and returns without a signal when nobody waits
PutReturnsUnsignalled(p) ==
    /\ pc[p] = "put_loop"
    /\ mutex = p
    /\ ~PutMore(p)
    /\ waiters = {}
    /\ mutex' = NoThread
    /\ ReturnValue(p, num[p])
    /\ balance' = balance + num[p]
    /\ snap' = NoSnap
    /\ UNCHANGED <<qvars, waiters, accepted, delivered>>

\* The loop ends (all bytes stored, or the queue is full) and
\* pthread_cond_signal finds nobody waiting: no effect
PutSignalNone(p) ==
    /\ UNCHANGED quota
    /\ pc[p] = "put_loop"
    /\ mutex = p
    /\ ~PutMore(p)
    /\ waiters = {}
    /\ pc' = [pc EXCEPT ![p] = "put_unlock"]
    /\ UNCHANGED <<qvars, svars, len, buf, num, timeout, expired, wret, result, hvars>>

\* where a thread woken from its wait continues: it has to take the mutex again
WakePc(w) == IF pc[w] = "get_blocked" THEN "get_wake" ELSE "tget_wake"

\* The loop ends and pthread_cond_signal unblocks one of the waiters
PutSignalWake(p) ==
    /\ UNCHANGED quota
    /\ pc[p] = "put_loop"
    /\ mutex = p
    /\ ~PutMore(p)
    /\ \E w \in waiters :
        /\ waiters' = waiters \ {w}
        /\ pc' = [pc EXCEPT ![p] = "put_unlock", ![w] = WakePc(w)]
        /\ wret' = [wret EXCEPT ![w] = WAIT_OK]
        /\ signalled' = [signalled EXCEPT ![w] = num[p] > 0]
    /\ UNCHANGED <<qvars, mutex, len, buf, num, timeout, expired, result>>
    /\ UNCHANGED <<accepted, delivered, balance, snap, startEmpty, wroteSince>>

\* a put that returns the count asked for instead of the count written
PutUnlockReturnsLen(p) ==
    /\ pc[p] = "put_unlock"
    /\ mutex = p
    /\ mutex' = NoThread
    /\ balance' = balance + len[p]
    /\ ReturnValue(p, len[p])
    /\ snap' = NoSnap
    /\ UNCHANGED <<qvars, waiters, accepted, delivered>>

\* pthread_mutex_unlock and return put_num
PutUnlock(p) ==
    /\ pc[p] = "put_unlock"
    /\ mutex = p
    /\ mutex' = NoThread
    /\ ReturnValue(p, num[p])
    /\ balance' = balance + num[p]
    /\ snap' = NoSnap
    /\ UNCHANGED <<qvars, waiters, accepted, delivered>>

queue_put_data(p) ==
    \/ PutCall(p)
    \/ PutByte(p)
    \/ PutSignalNone(p)
    \/ PutSignalWake(p)
    \/ PutUnlock(p)

\* ------------------------------------------------ queue_get_current_size
\* The read of current_size, made on a copy of the queue taken without
\* the mutex: it sees the counter as the iterations completed so far left it.
queue_get_current_size == current_size

\* ----------------------------------------------------- the drain (shared)
\* a drain that does not look for the end of the data
GetMoreIgnoresEmpty(c) == num[c] < len[c]

\* the loop test of a drain: another iteration reads a byte
GetMore(c) == num[c] < len[c] /\ ~IsEmpty(head, tail)

\* a reader of the wrong end: the newest byte instead of the oldest
FrontNewest == data[(tail + total_size - 1) % total_size]

\* the byte a drain iteration reads: data[head]
Front == data[head]

\* one iteration that copies data[head] to data[get_num]
DrainByte(c, at) ==
    /\ UNCHANGED quota
    /\ pc[c] = at
    /\ mutex = c
    /\ GetMore(c)
    /\ buf' = [buf EXCEPT ![c] = Append(buf[c], Front)]
    /\ head' = NextIndex(head, total_size)
    /\ current_size' = current_size - 1
    /\ num' = [num EXCEPT ![c] = num[c] + 1]
    /\ accepted' = Cancel(accepted, Append(delivered, Front))[1]
    /\ delivered' = Cancel(accepted, Append(delivered, Front))[2]
    /\ UNCHANGED <<data, tail, total_size, svars, pc, len, timeout, expired, wret, result>>
    /\ UNCHANGED <<balance, snap, startEmpty, wroteSince, signalled>>

\* pthread_mutex_lock before the drain loop
DrainLock(c, at, to) ==
    /\ UNCHANGED quota
    /\ pc[c] = at
    /\ mutex = NoThread
    /\ mutex' = c
    /\ pc' = [pc EXCEPT ![c] = to]
    /\ snap' = TakeSnap
    /\ UNCHANGED <<qvars, waiters, len, buf, num, timeout, expired, wret, result>>
    /\ UNCHANGED <<accepted, delivered, balance, startEmpty, wroteSince, signalled>>

\* the drain loop ends (get_num = data_len, or head = tail):
\* pthread_mutex_unlock and return get_num
DrainUnlock(c, at) ==
    /\ pc[c] = at
    /\ mutex = c
    /\ ~GetMore(c)
    /\ mutex' = NoThread
    /\ ReturnValue(c, num[c])
    /\ balance' = balance - num[c]
    /\ snap' = NoSnap
    /\ UNCHANGED <<qvars, waiters, accepted, delivered>>

\* A consumer's call with valid arguments, whichever get it is, up to
\* its first shared access; it goes on at pc `to`.
StartGet(c, n, tmo, to) ==
    /\ pc[c] = "idle"
    /\ MakesCall(c)
    /\ len' = [len EXCEPT ![c] = n]
    /\ timeout' = [timeout EXCEPT ![c] = tmo]
    /\ pc' = [pc EXCEPT ![c] = to]
    /\ result' = [result EXCEPT ![c] = 0]
    /\ startEmpty' = [startEmpty EXCEPT ![c] = (current_size = 0)]
    /\ UNCHANGED <<qvars, svars, buf, num, expired, wret>>
    /\ UNCHANGED <<accepted, delivered, balance, snap, wroteSince, signalled>>

\* a step of consumer c that touches only its pc
Goto(c, to) ==
    /\ UNCHANGED quota
    /\ pc' = [pc EXCEPT ![c] = to]
    /\ UNCHANGED <<qvars, svars, len, buf, num, timeout, expired, wret, result, hvars>>

\* pthread_mutex_lock / pthread_mutex_unlock around a wait
LockAt(c, at, to) ==
    /\ UNCHANGED quota
    /\ pc[c] = at
    /\ mutex = NoThread
    /\ mutex' = c
    /\ pc' = [pc EXCEPT ![c] = to]
    /\ UNCHANGED <<qvars, waiters, len, buf, num, timeout, expired, wret, result, hvars>>

UnlockAt(c, at, to) ==
    /\ UNCHANGED quota
    /\ pc[c] = at
    /\ mutex = c
    /\ mutex' = NoThread
    /\ pc' = [pc EXCEPT ![c] = to]
    /\ UNCHANGED <<qvars, waiters, len, buf, num, timeout, expired, wret, result, hvars>>

\* entering pthread_cond_wait / pthread_cond_timedwait: the mutex is
\* released and the thread blocks on the condition variable, atomically
BlockAt(c, at, to) ==
    /\ UNCHANGED quota
    /\ pc[c] = at
    /\ mutex = c
    /\ mutex' = NoThread
    /\ waiters' = waiters \cup {c}
    /\ pc' = [pc EXCEPT ![c] = to]
    /\ signalled' = [signalled EXCEPT ![c] = FALSE]
    /\ UNCHANGED <<qvars, len, buf, num, timeout, expired, wret, result>>
    /\ UNCHANGED <<accepted, delivered, balance, snap, startEmpty, wroteSince>>

\* a blocked thread leaves the wait without a signal; it still has to
\* take the mutex again before the wait returns r
LeaveWait(c, at, to, r) ==
    /\ UNCHANGED quota
    /\ pc[c] = at
    /\ c \in waiters
    /\ waiters' = waiters \ {c}
    /\ pc' = [pc EXCEPT ![c] = to]
    /\ wret' = [wret EXCEPT ![c] = r]
    /\ UNCHANGED <<qvars, mutex, len, buf, num, timeout, expired, result, hvars>>

\* -------------------------------------------------------- queue_get_data
\* an "if" in place of the "while": only the first test can lead to a wait
GetMustWaitOnce(c) == 0 = current_size /\ pc[c] = "idle"

\* a get without the while loop: it goes to the drain at once
GetMustWaitNever(c) == FALSE

\* the test of the while loop: wait only while current_size reads 0
GetMustWait(c) == 0 = queue_get_current_size

\* where the while loop goes after its test
GetLoopTarget(c) == IF GetMustWait(c) THEN "get_wait_lock" ELSE "get_drain_lock"

\* queue_get_data(queue_name, data, data_len) from its entry up to the
\* first test of the while loop
CallGet(c, queue_name, buffer, data_len) ==
    IF ArgsInvalid(queue_name, buffer, data_len)
    THEN Reject(c)
    ELSE StartGet(c, data_len, 0, GetLoopTarget(c))

\* a call with valid arguments (non-null queue and data, data_len >= 1)
GetCall(c) == \E n \in 1 .. MaxLen : CallGet(c, TRUE, TRUE, n)

\* a call with invalid arguments
GetCallInvalid(c) == \E a \in BadArgs : CallGet(c, a[1], a[2], a[3])

GetWaitLock(c) == LockAt(c, "get_wait_lock", "get_wait")
GetWait(c) == BlockAt(c, "get_wait", "get_blocked")
\* a spurious wakeup of pthread_cond_wait
GetSpurious(c) == LeaveWait(c, "get_blocked", "get_wake", WAIT_OK)
\* pthread_cond_wait takes the mutex again and returns
GetWake(c) == LockAt(c, "get_wake", "get_woken")
GetWaitUnlock(c) == UnlockAt(c, "get_woken", "get_check")
\* the test of the while loop after a wait
GetCheck(c) == pc[c] = "get_check" /\ Goto(c, GetLoopTarget(c))
GetDrainLock(c) == DrainLock(c, "get_drain_lock", "get_loop")
GetByte(c) == DrainByte(c, "get_loop")
GetUnlock(c) == DrainUnlock(c, "get_loop")

queue_get_data(c) ==
    \/ GetCall(c)
    \/ GetWaitLock(c)
    \/ GetWait(c)
    \/ GetSpurious(c)
    \/ GetWake(c)
    \/ GetWaitUnlock(c)
    \/ GetCheck(c)
    \/ GetDrainLock(c)
    \/ GetByte(c)
    \/ GetUnlock(c)

\* ------------------------------------------- queue_get_data_with_timeout
\* a test that lets a timeout of 0 wait as well
TimedGetWaitsAlways(tmo) == tmo >= 0

\* the test "timeout > 0" that decides whether the call may wait at all
TimedGetWaits(tmo) == tmo > 0

\* where the while loop of the timed get goes after its test
TGetLoopTarget == IF 0 = queue_get_current_size THEN "tget_wait_lock" ELSE "tget_drain_lock"

\* queue_get_data_with_timeout(queue_name, data, data_len, timeout) from its
\* entry up to its first shared access: with timeout > 0 the deadline
\* end_time is computed from the clock and the while loop is tested; with
\* timeout = 0 it goes to the lock of the drain.
CallTGet(c, queue_name, buffer, data_len, tmo) ==
    IF ArgsInvalid(queue_name, buffer, data_len)
    THEN Reject(c)
    ELSE StartGet(c, data_len, tmo,
                  IF TimedGetWaits(tmo) THEN TGetLoopTarget ELSE "tget_drain_lock")

\* a call with valid arguments
TGetCall(c) ==
    \E n \in 1 .. MaxLen, tmo \in Timeouts : CallTGet(c, TRUE, TRUE, n, tmo)

\* a call with invalid arguments
TGetCallInvalid(c) ==
    \E a \in BadArgs, tmo \in Timeouts : CallTGet(c, a[1], a[2], a[3], tmo)

TimedPcs == {"tget_check", "tget_wait_lock", "tget_wait", "tget_blocked",
             "tget_wake", "tget_woken", "tget_drain_lock", "tget_loop"}

\* the deadline of a running timed call passes (time is not otherwise modelled)
Expire(c) ==
    /\ UNCHANGED quota
    /\ pc[c] \in TimedPcs
    /\ timeout[c] > 0
    /\ ~expired[c]
    /\ expired' = [expired EXCEPT ![c] = TRUE]
    /\ UNCHANGED <<qvars, svars, pc, len, buf, num, timeout, wret, result, hvars>>

TGetWaitLock(c) == LockAt(c, "tget_wait_lock", "tget_wait")

\* pthread_cond_timedwait entered before the deadline: blocks
TGetWait(c) == ~expired[c] /\ BlockAt(c, "tget_wait", "tget_blocked")

\* pthread_cond_timedwait entered after the deadline: ETIMEDOUT at once,
\* the mutex still held
TGetWaitLate(c) ==
    /\ UNCHANGED quota
    /\ pc[c] = "tget_wait"
    /\ mutex = c
    /\ expired[c]
    /\ pc' = [pc EXCEPT ![c] = "tget_woken"]
    /\ wret' = [wret EXCEPT ![c] = WAIT_ETIMEDOUT]
    /\ signalled' = [signalled EXCEPT ![c] = FALSE]
    /\ UNCHANGED <<qvars, svars, len, buf, num, timeout, expired, result>>
    /\ UNCHANGED <<accepted, delivered, balance, snap, startEmpty, wroteSince>>

\* the ways a blocked pthread_cond_timedwait ends without a signal
TGetSpurious(c) == LeaveWait(c, "tget_blocked", "tget_wake", WAIT_OK)
TGetTimeout(c) == expired[c] /\ LeaveWait(c, "tget_blocked", "tget_wake", WAIT_ETIMEDOUT)
TGetInterrupted(c) == LeaveWait(c, "tget_blocked", "tget_wake", WAIT_EINTR)

\* pthread_cond_timedwait takes the mutex again and returns ret
TGetWake(c) == LockAt(c, "tget_wake", "tget_woken")

\* the test "EINTR == ret" on the value the wait returned
WaitRetries(ret) == ret = WAIT_EINTR

\* EINTR: unlock and continue the while loop (ret goes out of scope)
TGetRetry(c) ==
    /\ UNCHANGED quota
    /\ pc[c] = "tget_woken"
    /\ mutex = c
    /\ WaitRetries(wret[c])
    /\ mutex' = NoThread
    /\ pc' = [pc EXCEPT ![c] = "tget_check"]
    /\ wret' = [wret EXCEPT ![c] = WAIT_OK]
    /\ UNCHANGED <<qvars, waiters, len, buf, num, timeout, expired, result, hvars>>

\* the test of the while loop after a wait that was retried
TGetCheck(c) == pc[c] = "tget_check" /\ Goto(c, TGetLoopTarget)

\* a failure path that returns -1 with the mutex still locked
TGetFailKeepsLock(c) ==
    /\ pc[c] = "tget_woken"
    /\ mutex = c
    /\ ~WaitRetries(wret[c])
    /\ ReturnValue(c, -1)
    /\ UNCHANGED <<qvars, svars, accepted, delivered, balance, snap>>

\* any other ret: unlock and return -1
TGetFail(c) ==
    /\ pc[c] = "tget_woken"
    /\ mutex = c
    /\ ~WaitRetries(wret[c])
    /\ mutex' = NoThread
    /\ ReturnValue(c, -1)
    /\ UNCHANGED <<qvars, waiters, accepted, delivered, balance, snap>>

TGetDrainLock(c) == DrainLock(c, "tget_drain_lock", "tget_loop")
TGetByte(c) == DrainByte(c, "tget_loop")
TGetUnlock(c) == DrainUnlock(c, "tget_loop")

queue_get_data_with_timeout(c) ==
    \/ TGetCall(c)
    \/ Expire(c)
    \/ TGetWaitLock(c)
    \/ TGetWait(c)
    \/ TGetWaitLate(c)
    \/ TGetSpurious(c)
    \/ TGetTimeout(c)
    \/ TGetInterrupted(c)
    \/ TGetWake(c)
    \/ TGetRetry(c)
    \/ TGetCheck(c)
    \/ TGetFail(c)
    \/ TGetDrainLock(c)
    \/ TGetByte(c)
    \/ TGetUnlock(c)

\* ----------------------------------------------------------- queue_clear
\* A call with a non-null queue up to its pthread_mutex_lock (nothing
\* shared is touched before it).
ClearCall(o) ==
    /\ pc[o] = "idle"
    /\ MakesCall(o)
    /\ mutex = NoThread
    /\ mutex' = o
    /\ pc' = [pc EXCEPT ![o] = "clear_reset"]
    /\ result' = [result EXCEPT ![o] = 0]
    /\ snap' = TakeSnap
    /\ UNCHANGED <<qvars, waiters, len, buf, num, timeout, expired, wret>>
    /\ UNCHANGED <<accepted, delivered, balance, startEmpty, wroteSince, signalled>>

\* a clear that leaves tail where it is
ClearResetHeadOnly(o) ==
    /\ UNCHANGED quota
    /\ pc[o] = "clear_reset"
    /\ mutex = o
    /\ head' = 0
    /\ current_size' = 0
    /\ pc' = [pc EXCEPT ![o] = "clear_unlock"]
    /\ accepted' = << >>
    /\ delivered' = << >>
    /\ balance' = 0
    /\ UNCHANGED <<data, tail, total_size, svars, len, buf, num, timeout, expired, wret, result>>
    /\ UNCHANGED <<snap, startEmpty, wroteSince, signalled>>

\* head = tail = 0; current_size = 0.  The bytes that were held are
\* dropped: the histories start again with the empty queue.
ClearReset(o) ==
    /\ UNCHANGED quota
    /\ pc[o] = "clear_reset"
    /\ mutex = o
    /\ head' = 0
    /\ tail' = 0
    /\ current_size' = 0
    /\ pc' = [pc EXCEPT ![o] = "clear_unlock"]
    /\ accepted' = << >>
    /\ delivered' = << >>
    /\ balance' = 0
    /\ UNCHANGED <<data, total_size, svars, len, buf, num, timeout, expired, wret, result>>
    /\ UNCHANGED <<snap, startEmpty, wroteSince, signalled>>

\* pthread_mutex_unlock and return true
ClearUnlock(o) ==
    /\ pc[o] = "clear_unlock"
    /\ mutex = o
    /\ mutex' = NoThread
    /\ ReturnValue(o, 1)
    /\ snap' = NoSnap
    /\ UNCHANGED <<qvars, waiters, accepted, delivered, balance>>

queue_clear(o) ==
    \/ ClearCall(o)
    \/ ClearReset(o)
    \/ ClearUnlock(o)

\* --------------------------------------------------------- queue_destroy
\* A call with a non-null queue up to free(queue_name->data).
DestroyCall(o) ==
    /\ pc[o] = "idle"
    /\ MakesCall(o)
    /\ data' = Freed
    /\ pc' = [pc EXCEPT ![o] = "destroy_mutex"]
    /\ result' = [result EXCEPT ![o] = 0]
    /\ UNCHANGED <<head, tail, total_size, current_size, svars>>
    /\ UNCHANGED <<len, buf, num, timeout, expired, wret, hvars>>

\* pthread_mutex_destroy returns 0.  It does when the mutex is free; on a
\* locked mutex the call is undefined, and 0 is one of the outcomes that
\* implementations produce (another is EBUSY, below).
DestroyMutexOk(o) ==
    /\ UNCHANGED quota
    /\ pc[o] = "destroy_mutex"
    /\ mutex' = Destroyed
    /\ pc' = [pc EXCEPT ![o] = "destroy_cond"]
    /\ UNCHANGED <<qvars, waiters, len, buf, num, timeout, expired, wret, result, hvars>>

\* pthread_mutex_destroy on a locked mutex returns EBUSY: return false
DestroyMutexBusy(o) ==
    /\ pc[o] = "destroy_mutex"
    /\ mutex # NoThread
    /\ ReturnValue(o, 0)
    /\ UNCHANGED <<qvars, svars, accepted, delivered, balance, snap>>

\* pthread_cond_destroy returns 0.  It does when nobody is blocked on the
\* condition variable; with a thread blocked on it the call is undefined,
\* and the outcomes that implementations produce are 0, EBUSY, and not
\* returning before the waiters have left.
DestroyCondOk(o) ==
    /\ UNCHANGED quota
    /\ pc[o] = "destroy_cond"
    /\ pc' = [pc EXCEPT ![o] = "destroy_reset"]
    /\ UNCHANGED <<qvars, svars, len, buf, num, timeout, expired, wret, result, hvars>>

\* pthread_cond_destroy with a thread blocked returns EBUSY: return false
DestroyCondBusy(o) ==
    /\ pc[o] = "destroy_cond"
    /\ waiters # {}
    /\ ReturnValue(o, 0)
    /\ UNCHANGED <<qvars, svars, accepted, delivered, balance, snap>>

\* pthread_cond_destroy with a thread blocked does not return
DestroyCondBlocks(o) ==
    /\ UNCHANGED quota
    /\ pc[o] = "destroy_cond"
    /\ waiters # {}
    /\ pc' = [pc EXCEPT ![o] = "destroy_blocked"]
    /\ UNCHANGED <<qvars, svars, len, buf, num, timeout, expired, wret, result, hvars>>

\* a teardown that leaves total_size as it was
DestroyResetKeepsSize(o) ==
    /\ pc[o] = "destroy_reset"
    /\ head' = 0
    /\ tail' = 0
    /\ current_size' = 0
    /\ ReturnValue(o, 1)
    /\ UNCHANGED <<data, total_size, svars, accepted, delivered, balance, snap>>

\* head = tail = 0; current_size = 0; total_size = 0; return true
DestroyReset(o) ==
    /\ pc[o] = "destroy_reset"
    /\ head' = 0
    /\ tail' = 0
    /\ current_size' = 0
    /\ total_size' = 0
    /\ ReturnValue(o, 1)
    /\ UNCHANGED <<data, svars, accepted, delivered, balance, snap>>

queue_destroy(o) ==
    \/ DestroyCall(o)
    \/ DestroyMutexOk(o)
    \/ DestroyMutexBusy(o)
    \/ DestroyCondOk(o)
    \/ DestroyCondBusy(o)
    \/ DestroyCondBlocks(o)
    \/ DestroyReset(o)

\* ------------------------------------------------------- specifications
\* One producer and one consumer that may call either get.
Next ==
    \/ queue_put_data("p1")
    \/ queue_get_data("c1")
    \/ queue_get_data_with_timeout("c1")

Spec == Init /\ [][Next]_vars

\* Two producers and one consumer.
Next2P ==
    \/ \E p \in Producers : queue_put_data(p)
    \/ queue_get_data("c1")
    \/ queue_get_data_with_timeout("c1")

Spec2P == Init /\ [][Next2P]_vars

\* One producer and two consumers that call the blocking get.
NextMC ==
    \/ queue_put_data("p1")
    \/ \E c \in Consumers : queue_get_data(c)

SpecMC == Init /\ [][NextMC]_vars

\* One producer and one consumer that calls the blocking get, under fair
\* scheduling: a thread inside a call keeps running (a thread that can take
\* a step, or can again and again, eventually takes it).  Nothing obliges a
\* thread to make another call, and nothing obliges a spurious wakeup.
PutRun(p) == PutByte(p) \/ PutSignalNone(p) \/ PutSignalWake(p) \/ PutUnlock(p)

GetRun(c) ==
    \/ GetWaitLock(c)
    \/ GetWait(c)
    \/ GetWake(c)
    \/ GetWaitUnlock(c)
    \/ GetCheck(c)
    \/ GetDrainLock(c)
    \/ GetByte(c)
    \/ GetUnlock(c)

NextFair ==
    \/ queue_put_data("p1")
    \/ queue_get_data("c1")

SpecFair ==
    /\ Init
    /\ [][NextFair]_vars
    /\ WF_vars(PutRun("p1"))
    /\ SF_vars(GetRun("c1"))

\* ------------------------------------------------------------------ C1
GetPcs == {"get_wait_lock", "get_wait", "get_blocked", "get_wake", "get_woken",
           "get_check", "get_drain_lock", "get_loop"}

\* C1: blocking-get liveness.  With one producer and one consumer, when the
\* consumer is in a queue_get_data that started on an empty queue and a
\* queue_put_data that wrote at least one byte since then has completed, the
\* get eventually returns, with at least 1 byte.
C1_BlockingGetReturns ==
    (/\ pc["c1"] \in GetPcs
     /\ startEmpty["c1"]
     /\ wroteSince["c1"]
     /\ pc["p1"] = "idle")
        ~> (pc["c1"] = "idle" /\ result["c1"] >= 1)

\* ------------------------------------------------------------------ C2
\* C2: a queue_get_data_with_timeout (timeout > 0) whose wait was ended,
\* before the deadline, by the signal of a queue_put_data that had written
\* at least one byte goes on to the drain and returns at least 1; it does
\* not return -1.
C2_SignalledTimedGetDrains ==
    [][\A c \in Consumers :
        (/\ pc[c] = "tget_woken"
         /\ signalled[c]
         /\ wret[c] = WAIT_OK
         /\ ~expired[c]
         /\ pc'[c] = "idle") => result'[c] >= 1]_vars

\* ------------------------------------------------------------------ C8
\* C8: a queue_get_data_with_timeout (timeout > 0) on a queue that has been
\* empty since the call returns -1 only once its deadline has passed.
C8_TimeoutFloor ==
    [][\A c \in Consumers :
        (/\ pc[c] \in TimedPcs
         /\ timeout[c] > 0
         /\ startEmpty[c]
         /\ ~wroteSince[c]
         /\ pc'[c] = "idle"
         /\ result'[c] = -1) => expired[c]]_vars

\* ------------------------------------------------------------------ C3
\* C3: FIFO order.  The bytes the drains have read, in the order read, are
\* a prefix of the bytes the puts have written, in the order written (both
\* orders are those in which the calls held the mutex).
C3_FifoOrder == IsPrefix(delivered, accepted)

\* a drain that has read two bytes across the end of the buffer
C3_Witness ==
    /\ pc["c1"] \in {"get_loop", "tget_loop"}
    /\ num["c1"] = 2
    /\ head < snap.head
    /\ delivered = << >>

\* ------------------------------------------------------------------ C4
SnapHeld == Ring(snap.data, snap.head, snap.tail, total_size)
PutReturns(p) == pc[p] = "put_unlock" /\ pc'[p] = "idle"

\* C4: capacity bound.  The queue never holds more than N = queue_size
\* bytes; a put of N bytes into an empty queue returns N; a put into a full
\* queue returns 0 and leaves head, tail, current_size and data as they
\* were; a put of m bytes into a queue with k free places returns min(m, k).
C4_CapacityBound ==
    [][/\ current_size' <= Capacity
       /\ Len(Held') <= Capacity
       /\ \A p \in Producers : PutReturns(p) =>
            /\ (snap.size = 0 /\ len[p] = Capacity) => result'[p] = Capacity
            /\ snap.size = Capacity =>
                 /\ result'[p] = 0
                 /\ <<head', tail', current_size', data'>>
                        = <<snap.head, snap.tail, snap.size, snap.data>>
            /\ \A k \in 0 .. Capacity :
                 snap.size = Capacity - k => result'[p] = Min(len[p], k)]_vars

\* a put that found the queue full is about to return 0
C4_Witness ==
    \E p \in Producers :
        /\ pc[p] = "put_unlock"
        /\ snap.size = Capacity
        /\ current_size = Capacity
        /\ num[p] = 0

\* ------------------------------------------------------------------ C7
\* C7: a queue_get_data_with_timeout with timeout = 0 never waits on the
\* condition variable: it is only ever at the lock of the drain or in the
\* drain loop, and it returns min(data_len, bytes held when it took the
\* mutex): 0 on an empty queue, never -1.
C7_ZeroTimeout ==
    [][\A c \in Consumers :
        /\ (pc'[c] \in TimedPcs /\ timeout'[c] = 0) =>
              /\ pc'[c] \in {"tget_drain_lock", "tget_loop"}
              /\ c \notin waiters'
        /\ (pc[c] \in TimedPcs /\ timeout[c] = 0 /\ pc'[c] = "idle") =>
              /\ pc[c] = "tget_loop"
              /\ result'[c] = Min(len[c], snap.size)
              /\ result'[c] = Len(buf[c])]_vars

\* a timed get with timeout 0 that found the queue empty is about to return
C7_Witness ==
    \E c \in Consumers :
        /\ pc[c] = "tget_loop"
        /\ timeout[c] = 0
        /\ snap.size = 0
        /\ IsEmpty(head, tail)

\* ------------------------------------------------------------------ C9
\* C9: a queue_put_data with valid arguments returns min(m, N - h), m its
\* data_len and h the bytes held when it took the mutex; the queue then
\* holds what it held, followed by that many leading bytes of the input,
\* head unmoved; a producer never waits on the condition variable.
C9_PutResult ==
    [][\A p \in Producers :
        /\ p \notin waiters'
        /\ PutReturns(p) =>
              /\ result'[p] = Min(len[p], Capacity - snap.size)
              /\ Held' = SnapHeld \o SubSeq(buf[p], 1, result'[p])
              /\ head' = snap.head]_vars

\* a short write: a put of 2 bytes that could store only 1
C9_Witness ==
    \E p \in Producers :
        /\ pc[p] = "put_unlock"
        /\ len[p] = 2
        /\ num[p] = 1
        /\ snap.size >= 1

\* ----------------------------------------------------------------- C10
\* C10: conservation.  Whenever nobody holds the mutex, the sum of the
\* returns >= 0 of put minus the sum of the returns >= 0 of the gets is the
\* number of bytes the queue holds, by its counter and by its indices.
C10_Conservation ==
    mutex = NoThread => (balance = current_size /\ balance = Len(Held))

\* both producers have written, the consumer has taken a byte, one is left
C10_Witness ==
    /\ mutex = NoThread
    /\ \A t \in {"p1", "p2", "c1"} : pc[t] = "idle" /\ result[t] = 1
    /\ current_size = 1

\* ------------------------------------------------------------------ C5
GetReturns(c) == pc[c] \in GetPcs /\ pc'[c] = "idle"

\* C5: blocking-get safety.  A queue_get_data leaves its while loop only on
\* reading a non-zero current_size; one that started on an empty queue
\* leaves it, and returns, only after a put has written a byte; a woken
\* consumer that reads current_size = 0 goes back to the wait.
C5_BlockingGetSafety ==
    [][\A c \in Consumers :
        /\ (pc[c] # "get_drain_lock" /\ pc'[c] = "get_drain_lock") =>
              /\ current_size > 0
              /\ startEmpty'[c] => wroteSince'[c]
        /\ GetReturns(c) =>
              /\ pc[c] = "get_loop"
              /\ startEmpty[c] => wroteSince[c]
        /\ (pc[c] = "get_check" /\ current_size = 0 /\ pc'[c] # "get_check") =>
              pc'[c] = "get_wait_lock"]_vars

\* c2 was woken after a put, but c1 has drained the byte: c2 re-tests the
\* loop on an empty queue
C5_Witness ==
    /\ pc["c2"] = "get_check"
    /\ current_size = 0
    /\ wroteSince["c2"]
    /\ pc["c1"] = "idle"
    /\ result["c1"] >= 1

\* ------------------------------------------------------------------ C6
\* The scenario of C6: queue_init(&q, 2); p1 and p2 each make one put of one
\* byte, c1 makes one blocking get with data_len 2.
InitC6 ==
    /\ queue_init(2)
    /\ InitThreads
    /\ quota = [t \in Threads |-> 1]
    /\ InitHistory

PutOneByte(p) == PutCall(p) /\ len'[p] = 1
GetTwoBytes(c) == GetCall(c) /\ len'[c] = 2

NextC6 ==
    \/ \E p \in Producers : PutOneByte(p) \/ PutRun(p)
    \/ GetTwoBytes("c1")
    \/ GetRun("c1")
    \/ GetSpurious("c1")

SpecC6 == InitC6 /\ [][NextC6]_vars

\* the puts that have returned
PutsDone == {p \in Producers : pc[p] = "idle" /\ quota[p] = 0}

\* C6 as stated: the get returns only once both puts have completed, and
\* then returns 2.
C6_GetReturnsBoth ==
    [][GetReturns("c1") => (PutsDone = Producers /\ result'["c1"] = 2)]_vars

\* C6 as amended: the get returns only once a put has completed; it returns
\* the number of puts completed when it takes the mutex for the drain (1
\* or 2), with the bytes of those puts, oldest first, as its output.
C6_GetReturnsWhatWasPut ==
    [][GetReturns("c1") =>
        /\ result'["c1"] \in {1, 2}
        /\ result'["c1"] = Cardinality(PutsDone)
        /\ buf["c1"] = SnapHeld
        /\ Len(buf["c1"]) = result'["c1"]]_vars

\* the get is about to return 1 while one producer has not even called
C6_Witness ==
    /\ pc["c1"] = "get_loop"
    /\ num["c1"] = 1
    /\ IsEmpty(head, tail)
    /\ \E p \in Producers : quota[p] = 1
\* ----------------------------------------------------------------- C11
\* One producer and one consumer that may call either get; any call may
\* have invalid arguments.
NextArgs ==
    \/ queue_put_data("p1")
    \/ PutCallInvalid("p1")
    \/ queue_get_data("c1")
    \/ GetCallInvalid("c1")
    \/ queue_get_data_with_timeout("c1")
    \/ TGetCallInvalid("c1")

SpecArgs == Init /\ [][NextArgs]_vars

PutPcs == {"put_loop", "put_unlock"}

\* a call of t returns without t ever having left the argument check
ReturnsAtOnce(t) == pc[t] = "idle" /\ pc'[t] = "idle" /\ result'[t] # result[t]

\* C11: invalid arguments.  A put, get or timed get that returns straight
\* from its argument check returns -1 and changes neither head, tail,
\* current_size, total_size, data, the mutex, the waiters nor the position
\* of any thread; a call gets past the check only with data_len >= 1; and a
\* put or blocking get that got past it returns a value >= 0.
C11_InvalidArguments ==
    [][\A t \in Producers \cup Consumers :
        /\ ReturnsAtOnce(t) =>
              /\ result'[t] = -1
              /\ UNCHANGED <<qvars, svars, pc>>
        /\ pc'[t] # "idle" => len'[t] >= 1
        /\ (pc[t] \in PutPcs \cup GetPcs /\ pc'[t] = "idle") => result'[t] >= 0]_vars

\* an invalid put has returned -1 (a valid one returns >= 0) and so has a
\* call of the consumer, on an empty queue, nobody holding the mutex or waiting
C11_Witness ==
    /\ pc["p1"] = "idle"
    /\ result["p1"] = -1
    /\ pc["c1"] = "idle"
    /\ result["c1"] = -1
    /\ current_size = 0
    /\ mutex = NoThread
    /\ waiters = {}
\* ----------------------------------------------------------------- C12
\* One producer, one consumer that may call either get, and the owner
\* calling queue_clear at any time.
NextClear ==
    \/ queue_put_data("p1")
    \/ queue_get_data("c1")
    \/ queue_get_data_with_timeout("c1")
    \/ queue_clear("o1")

SpecClear == Init /\ [][NextClear]_vars

\* C12: clear.  queue_clear, whatever the state and the calls in progress,
\* sets head = tail = 0 and current_size = 0 while it holds the mutex and
\* changes neither total_size nor data; a put that takes the mutex on the
\* reset queue returns min(data_len, N) with its bytes held from slot 0,
\* as after queue_init; and the bytes read after a clear are a prefix of
\* the bytes written after it: none written before it is read.
C12_Clear ==
    [][/\ \A o \in Owners :
            /\ (pc[o] = "clear_reset" /\ pc'[o] = "clear_unlock") =>
                  /\ mutex = o /\ mutex' = o
                  /\ head' = 0 /\ tail' = 0 /\ current_size' = 0
            /\ (pc[o] # "idle" \/ pc'[o] # "idle") =>
                  /\ total_size' = total_size
                  /\ data' = data
       /\ \A p \in Producers :
            (PutReturns(p) /\ snap.head = 0 /\ snap.tail = 0) =>
                  /\ result'[p] = Min(len[p], Capacity)
                  /\ \A i \in 1 .. result'[p] : data'[i - 1] = buf[p][i]
                  /\ head' = 0 /\ tail' = result'[p]
       /\ IsPrefix(delivered', accepted')]_vars

\* a clear has reset a full queue: the stale bytes are still in data
C12_Witness ==
    /\ pc["o1"] = "clear_unlock"
    /\ snap.size = Capacity
    /\ current_size = 0
    /\ head = 0 /\ tail = 0
    /\ \A i \in 0 .. Capacity - 1 : data[i] # Uninit
\* ----------------------------------------------------------------- C13
\* One producer and one consumer of the blocking get, until the owner
\* calls queue_destroy, once, at any time.  What a thread does with a queue
\* whose storage has been freed is undefined: from the free on, the model
\* follows the destroy call alone.
InitDestroy ==
    /\ \E queue_size \in 1 .. MaxCap : queue_init(queue_size)
    /\ InitThreads
    /\ quota = [t \in Threads |-> IF t \in Owners THEN 1 ELSE -1]
    /\ InitHistory

NextDestroy ==
    \/ data # Freed /\ queue_put_data("p1")
    \/ data # Freed /\ queue_get_data("c1")
    \/ queue_destroy("o1")

SpecDestroy == InitDestroy /\ [][NextDestroy]_vars

DestroyPcs == {"destroy_mutex", "destroy_cond", "destroy_reset", "destroy_blocked"}
DestroyReturns(o) == pc[o] \in DestroyPcs /\ pc'[o] = "idle"
\* pthread_mutex_destroy / pthread_cond_destroy returns
MutexDestroyReturns(o) == pc[o] = "destroy_mutex" /\ pc'[o] # "destroy_mutex"
CondDestroyReturns(o) == pc[o] = "destroy_cond" /\ pc'[o] # "destroy_cond"

\* C13 as stated: the storage is released first; whenever a thread holds
\* the mutex, or is blocked in a wait, queue_destroy returns false with
\* head, tail, current_size and total_size as they were; and when it
\* returns true these four are 0.
C13_DestroyFailsInUse ==
    [][\A o \in Owners :
        /\ pc[o] \in DestroyPcs => data = Freed
        /\ (MutexDestroyReturns(o) /\ mutex # NoThread) =>
              /\ pc'[o] = "idle" /\ result'[o] = 0
              /\ UNCHANGED <<head, tail, current_size, total_size>>
        /\ (CondDestroyReturns(o) /\ waiters # {}) =>
              /\ pc'[o] = "idle" /\ result'[o] = 0
              /\ UNCHANGED <<head, tail, current_size, total_size>>
        /\ (DestroyReturns(o) /\ result'[o] = 1) =>
              <<head', tail', current_size', total_size'>> = <<0, 0, 0, 0>>]_vars

\* C13 as amended: the storage is released first; queue_destroy returns
\* true only after pthread_mutex_destroy and pthread_cond_destroy have both
\* returned 0, and then head, tail, current_size and total_size are 0; it
\* returns false only if a thread held the mutex or was blocked in a wait,
\* with the storage released and the four fields as they were; with the
\* mutex free and nobody waiting both destroys return 0.  (With the mutex
\* held or a thread waiting the result is not determined: the call may
\* return false, return true, or not return.)
C13_DestroyReportsBusy ==
    [][\A o \in Owners :
        /\ pc[o] \in DestroyPcs => data = Freed
        /\ (MutexDestroyReturns(o) /\ mutex = NoThread) =>
              pc'[o] = "destroy_cond" /\ mutex' = Destroyed
        /\ (CondDestroyReturns(o) /\ waiters = {}) => pc'[o] = "destroy_reset"
        /\ (DestroyReturns(o) /\ result'[o] = 1) =>
              /\ pc[o] = "destroy_reset"
              /\ mutex = Destroyed
              /\ <<head', tail', current_size', total_size'>> = <<0, 0, 0, 0>>
        /\ (DestroyReturns(o) /\ result'[o] = 0) =>
              /\ (pc[o] = "destroy_mutex" /\ mutex \in Threads)
                     \/ (pc[o] = "destroy_cond" /\ waiters # {})
              /\ data' = Freed
              /\ UNCHANGED <<head, tail, current_size, total_size>>]_vars

\* queue_destroy has returned false because a put held the mutex: the
\* storage is gone, the queue still counts a byte
C13_Witness ==
    /\ pc["o1"] = "idle"
    /\ quota["o1"] = 0
    /\ result["o1"] = 0
    /\ data = Freed
    /\ mutex = "p1"
    /\ current_size = 1
    /\ total_size > 0
\* ----------------------------------------------------------------- C14
\* C14: index / occupancy invariant.  Whenever nobody holds the mutex, after
\* any interleaving of put, get, timed get and clear: head and tail are in
\* 0 .. total_size - 1; total_size is the queue_size given to queue_init
\* plus 1; current_size = (tail - head) mod total_size; current_size = 0
\* exactly if head = tail; and current_size = queue_size exactly if
\* (tail + 1) mod total_size = head.
C14_IndexInvariant ==
    mutex = NoThread =>
        /\ head \in 0 .. total_size - 1
        /\ tail \in 0 .. total_size - 1
        /\ \E queue_size \in 1 .. MaxCap : total_size = InitLen(queue_size)
        /\ current_size = (tail - head + total_size) % total_size
        /\ (current_size = 0) <=> IsEmpty(head, tail)
        /\ (current_size = Capacity) <=> IsFull(head, tail, total_size)

\* after a clear, a full queue whose bytes wrap around the end of the buffer
C14_Witness ==
    /\ mutex = NoThread
    /\ result["o1"] = 1
    /\ tail < head
    /\ current_size = Capacity
    /\ Capacity = MaxCap
\* ----------------------------------------------------------------- C15
\* C15: the race of the unlocked check, with two consumers.  A blocking get
\* returns min(data_len, bytes held when it took the mutex for the drain),
\* which is 0 exactly if the queue was empty then; and that happens: the
\* state C15_Witness is reached.
C15_ZeroOnlyIfDrained ==
    [][\A c \in Consumers :
        GetReturns(c) =>
            /\ result'[c] = Min(len[c], snap.size)
            /\ (result'[c] = 0) <=> (snap.size = 0)]_vars

\* c1 read current_size = 1 in its while test, c2 then drained that byte
\* and returned 1, and c1 has now taken the mutex and found head = tail: it
\* is about to return 0
C15_Witness ==
    /\ pc["c1"] = "get_loop"
    /\ mutex = "c1"
    /\ snap.size = 0
    /\ num["c1"] = 0
    /\ IsEmpty(head, tail)
    /\ pc["c2"] = "idle"
    /\ result["c2"] = 1
    /\ balance = 0
\* ----------------------------------------------------------------- C16
\* the slots that held an unread byte when the holder took the mutex
SnapSlots == {(snap.head + j) % total_size : j \in 0 .. snap.size - 1}
\* the slots from the tail of then up to the last one a put may fill
SnapFreeSlots == {(snap.tail + j) % total_size : j \in 0 .. Capacity - snap.size - 1}

\* C16: no overwrite.  While a put holds the mutex head does not change,
\* and a slot of data changes, or tail moves, only by a write of the next
\* input byte to the slot at tail, which held no unread byte when the put
\* took the mutex, lies at or after the tail of then, and is not the slot
\* before head.  While a drain holds the mutex neither tail nor data changes.
C16_NoOverwrite ==
    [][/\ \A p \in Producers : mutex = p =>
            /\ head' = head
            /\ \A i \in DOMAIN data : data'[i] # data[i] => (i = tail /\ tail' # tail)
            /\ tail' # tail =>
                  /\ tail \notin SnapSlots
                  /\ tail \in SnapFreeSlots
                  /\ tail # (head + total_size - 1) % total_size
                  /\ data'[tail] = buf[p][num[p] + 1]
                  /\ tail' = NextIndex(tail, total_size)
       /\ \A c \in Consumers : mutex = c =>
            /\ tail' = tail
            /\ data' = data]_vars

\* a put has written a byte across the end of the buffer next to a byte
\* that is still unread
C16_Witness ==
    \E p \in Producers :
        /\ pc[p] = "put_unlock"
        /\ num[p] >= 1
        /\ snap.size >= 1
        /\ tail < snap.tail
        /\ head = snap.head
\* ----------------------------------------------------------------- C17
\* C17: one signal per put.  A queue_put_data that got past its argument
\* check goes from the lock through its loop to exactly one
\* pthread_cond_signal (the step from "put_loop" to "put_unlock"), made
\* with the mutex held, which unblocks one waiter if there is one, and only
\* then unlocks and returns put_num, whatever put_num is; a put that
\* returns from the argument check changes neither the mutex, the waiters
\* nor the position of any thread.
C17_SignalPerPut ==
    [][\A p \in Producers :
        /\ (pc[p] = "idle" /\ pc'[p] # "idle") =>
              pc'[p] = "put_loop" /\ mutex' = p
        /\ (pc[p] = "put_loop" /\ pc'[p] # "put_loop") =>
              /\ pc'[p] = "put_unlock"
              /\ mutex = p /\ mutex' = p
              /\ IF waiters = {}
                 THEN waiters' = {}
                 ELSE \E w \in waiters :
                        /\ waiters' = waiters \ {w}
                        /\ pc'[w] \in {"get_wake", "tget_wake"}
        /\ (pc[p] = "put_unlock" /\ pc'[p] # "put_unlock") =>
              /\ pc'[p] = "idle"
              /\ mutex = p /\ mutex' = NoThread
              /\ waiters' = waiters
              /\ result'[p] = num[p]
        /\ ReturnsAtOnce(p) => UNCHANGED <<svars, pc>>]_vars

\* a put that found the queue full and wrote nothing has signalled and
\* unblocked the waiting consumer; it still holds the mutex
C17_Witness ==
    /\ pc["p1"] = "put_unlock"
    /\ mutex = "p1"
    /\ num["p1"] = 0
    /\ current_size = Capacity
    /\ pc["c1"] \in {"get_wake", "tget_wake"}
    /\ waiters = {}
\* ----------------------------------------------------------------- C18
\* the positions between a lock (or a wait that has re-taken the mutex) and
\* the unlock (or the wait that releases it)
LockedPcs == {"put_loop", "put_unlock", "get_wait", "get_woken", "get_loop",
              "tget_wait", "tget_woken", "tget_loop", "clear_reset", "clear_unlock"}

\* C18: lock discipline.  A thread is in a locked region of put, get, timed
\* get or clear exactly if it holds the mutex, so at most one is; the mutex
\* is taken only when free; head, tail, current_size, total_size and data
\* change only in a step of the thread that holds the mutex before and
\* after the step; and a thread that has returned does not hold the mutex.
C18_LockDiscipline ==
    [][/\ \A t \in Threads : (pc'[t] \in LockedPcs) <=> (mutex' = t)
       /\ Cardinality({t \in Threads : pc'[t] \in LockedPcs}) <= 1
       /\ (mutex' \in Threads /\ mutex' # mutex) => mutex = NoThread
       /\ qvars' # qvars =>
            /\ mutex \in Threads
            /\ mutex' = mutex
            /\ pc[mutex] \in LockedPcs
            /\ pc'[mutex] # pc[mutex] \/ num'[mutex] # num[mutex]
       /\ \A t \in Threads : pc'[t] = "idle" => mutex' # t]_vars

\* a timed get whose wait timed out holds the mutex again and is about to
\* take the early return (after a clear, the producer between two calls)
C18_Witness ==
    /\ pc["c1"] = "tget_woken"
    /\ wret["c1"] = WAIT_ETIMEDOUT
    /\ mutex = "c1"
    /\ pc["p1"] = "idle"
    /\ result["o1"] = 1
\* ----------------------------------------------------------------- C19
\* C19: put atomicity, with two producers.  A put in progress holds the
\* mutex, and the queue holds what it held when the put took the mutex
\* followed by the input bytes the put has stored so far, in input order:
\* no byte of another put lies between them.  A drain in progress holds
\* the mutex, so no put is in progress; it has read the oldest get_num of
\* the bytes held when it took the mutex, and the queue holds the rest.
C19_PutAtomicity ==
    /\ \A p \in Producers : pc[p] \in PutPcs =>
          /\ mutex = p
          /\ Held = SnapHeld \o SubSeq(buf[p], 1, num[p])
    /\ \A c \in Consumers : pc[c] \in {"get_loop", "tget_loop"} =>
          /\ mutex = c
          /\ \A p \in Producers : pc[p] = "idle"
          /\ num[c] <= len[c]
          /\ buf[c] = SubSeq(SnapHeld, 1, num[c])
          /\ Held = SubSeq(SnapHeld, num[c] + 1, Len(SnapHeld))

\* p1 has put a byte and returned; p2, asked for two bytes, has stored one
\* behind it
C19_Witness ==
    /\ pc["p1"] = "idle"
    /\ result["p1"] = 1
    /\ pc["p2"] = "put_unlock"
    /\ len["p2"] = 2
    /\ num["p2"] = 1
    /\ snap.size = 1
    /\ Len(Held) = 2
\* ----------------------------------------------------------------- C20
\* C20: the result of the blocking get with a single consumer (two
\* producers, no clear).  Every return of queue_get_data yields r =
\* min(data_len, bytes held when the drain took the mutex) with
\* 1 <= r <= data_len: never 0, never -1.
C20_SingleConsumerGet ==
    [][GetReturns("c1") =>
        /\ snap.size >= 1
        /\ result'["c1"] = Min(len["c1"], snap.size)
        /\ result'["c1"] \in 1 .. len["c1"]
        /\ Len(buf["c1"]) = result'["c1"]]_vars

\* both producers have put a byte; the get, asked for one, has taken the
\* older and is about to return 1
C20_Witness ==
    /\ pc["c1"] = "get_loop"
    /\ len["c1"] = 1
    /\ num["c1"] = 1
    /\ snap.size = 2
    /\ \A p \in Producers : pc[p] = "idle" /\ result[p] = 1
====
